---- MODULE Spec2Model ----
(***************************************************************************)
(* BLOOD-BRIDGE: the blood compatibility engine (ai_engine.py) and the     *)
(* request lifecycle kept by the Flask handlers (app.py).                  *)
(*                                                                         *)
(* Texts (form fields, e-mails, blood groups) are sequences of one-        *)
(* character strings, so that strip(), upper(), lower() and int() are      *)
(* computed character by character as Python computes them.                *)
(***************************************************************************)
EXTENDS Integers, Sequences, FiniteSets, TLC

VARIABLES
    BLOOD_COMPATIBILITY_RULES, \* ai_engine.py: requested group -> list of donor groups
    users,                     \* app.py: email -> user record
    users_order,               \* app.py: the order in which the dict users keeps its keys, recorded
                               \* for the keys of donors: get_donor_list() is all that reads it
    requests_list,             \* app.py: list of request records
    donation_history,          \* app.py: donor email -> list of donation records
    threads,                   \* donate_blood calls in flight, one per server thread
    engine                     \* ai_engine.py: the arguments and the result of a call made on the engine alone

vars == <<BLOOD_COMPATIBILITY_RULES, users, users_order, requests_list, donation_history, threads, engine>>

\* ------------------------------------------------------------------ bounds
\* Longest requests_list explored.
MaxRequests == 2

\* Longest list of donors handed to filter_compatible_donors.
MaxCandidates == 3

\* ------------------------------------------------------------------ texts
\* Python's None. Every text is a sequence of one-character strings, so this
\* value is different from every text.
None == <<"None">>

\* The characters str.strip() and int() drop at both ends.
WhiteSpace == {" ", "\t", "\n", "\r", "\f"}

LowerCase == <<"a","b","c","d","e","f","g","h","i","j","k","l","m",
               "n","o","p","q","r","s","t","u","v","w","x","y","z">>
UpperCase == <<"A","B","C","D","E","F","G","H","I","J","K","L","M",
               "N","O","P","Q","R","S","T","U","V","W","X","Y","Z">>
Digits == <<"0","1","2","3","4","5","6","7","8","9">>

IndexIn(c, alphabet) ==
    IF \E i \in 1..Len(alphabet) : alphabet[i] = c
    THEN CHOOSE i \in 1..Len(alphabet) : alphabet[i] = c
    ELSE 0

\* The letter each lower-case letter becomes in upper case, and the converse.
ToUpper == [c \in {LowerCase[i] : i \in 1..Len(LowerCase)} |-> UpperCase[IndexIn(c, LowerCase)]]
ToLower == [c \in {UpperCase[i] : i \in 1..Len(UpperCase)} |-> LowerCase[IndexIn(c, UpperCase)]]
DigitOf == [c \in {Digits[i] : i \in 1..Len(Digits)} |-> IndexIn(c, Digits) - 1]

UpperChar(c) == IF c \in DOMAIN ToUpper THEN ToUpper[c] ELSE c
LowerChar(c) == IF c \in DOMAIN ToLower THEN ToLower[c] ELSE c

\* str.upper()
RECURSIVE upper(_)
upper(s) == IF s = <<>> THEN <<>> ELSE <<UpperChar(Head(s))>> \o upper(Tail(s))

\* str.lower()
RECURSIVE lower(_)
lower(s) == IF s = <<>> THEN <<>> ELSE <<LowerChar(Head(s))>> \o lower(Tail(s))

RECURSIVE LStrip(_)
LStrip(s) == IF s # <<>> /\ Head(s) \in WhiteSpace THEN LStrip(Tail(s)) ELSE s

RECURSIVE RStrip(_)
RStrip(s) ==
    IF s # <<>> /\ s[Len(s)] \in WhiteSpace THEN RStrip(SubSeq(s, 1, Len(s) - 1)) ELSE s

\* str.strip()
strip(s) == RStrip(LStrip(s))

\* The number a sequence of decimal digits and underscores denotes.
RECURSIVE DigitsValue(_)
DigitsValue(s) ==
    IF s = <<>> THEN 0
    ELSE IF s[Len(s)] = "_" THEN DigitsValue(SubSeq(s, 1, Len(s) - 1))
    ELSE 10 * DigitsValue(SubSeq(s, 1, Len(s) - 1)) + DigitOf[s[Len(s)]]

\* Decimal digits, with single underscores allowed between two digits.
AllDigits(s) ==
    /\ s # <<>>
    /\ \A i \in 1..Len(s) :
          \/ s[i] \in DOMAIN DigitOf
          \/ s[i] = "_" /\ 1 < i /\ i < Len(s) /\ s[i - 1] # "_" /\ s[i + 1] # "_"

\* int(text): white space at both ends is dropped, one sign is allowed, the
\* rest must be decimal digits; anything else raises ValueError (ok = FALSE).
int(text) ==
    LET t    == strip(text)
        sign == IF t # <<>> /\ Head(t) \in {"+", "-"} THEN Head(t) ELSE ""
        body == IF sign = "" THEN t ELSE Tail(t)
    IN  IF AllDigits(body)
        THEN [ok |-> TRUE, value |-> IF sign = "-" THEN 0 - DigitsValue(body) ELSE DigitsValue(body)]
        ELSE [ok |-> FALSE, value |-> 0]

\* ------------------------------------------------------------------ ai_engine.py
O_pos  == <<"O", "+">>
O_neg  == <<"O", "-">>
A_pos  == <<"A", "+">>
A_neg  == <<"A", "-">>
B_pos  == <<"B", "+">>
B_neg  == <<"B", "-">>
AB_pos == <<"A", "B", "+">>
AB_neg == <<"A", "B", "-">>

\* The keys of the table, in the order the dict literal lists them.
RuleKeys == <<O_pos, O_neg, A_pos, A_neg, B_pos, B_neg, AB_pos, AB_neg>>

\* The table with O- left out of the entry of A+.
InitialRulesWithoutUniversalDonor ==
    [g \in {RuleKeys[i] : i \in 1..Len(RuleKeys)} |->
        CASE g = O_pos  -> <<O_pos, O_neg>>
          [] g = O_neg  -> <<O_neg>>
          [] g = A_pos  -> <<A_pos, A_neg, O_pos>>
          [] g = A_neg  -> <<A_neg, O_neg>>
          [] g = B_pos  -> <<B_pos, B_neg, O_pos, O_neg>>
          [] g = B_neg  -> <<B_neg, O_neg>>
          [] g = AB_pos -> <<A_pos, A_neg, B_pos, B_neg, O_pos, O_neg, AB_pos, AB_neg>>
          [] g = AB_neg -> <<A_neg, B_neg, O_neg, AB_neg>>]

\* The table with the entry of B- written as that of B+.
InitialRulesRhIgnored ==
    [g \in {RuleKeys[i] : i \in 1..Len(RuleKeys)} |->
        CASE g = O_pos  -> <<O_pos, O_neg>>
          [] g = O_neg  -> <<O_neg>>
          [] g = A_pos  -> <<A_pos, A_neg, O_pos, O_neg>>
          [] g = A_neg  -> <<A_neg, O_neg>>
          [] g = B_pos  -> <<B_pos, B_neg, O_pos, O_neg>>
          [] g = B_neg  -> <<B_pos, B_neg, O_pos, O_neg>>
          [] g = AB_pos -> <<A_pos, A_neg, B_pos, B_neg, O_pos, O_neg, AB_pos, AB_neg>>
          [] g = AB_neg -> <<A_neg, B_neg, O_neg, AB_neg>>]

InitialRules ==
    [g \in {RuleKeys[i] : i \in 1..Len(RuleKeys)} |->
        CASE g = O_pos  -> <<O_pos, O_neg>>
          [] g = O_neg  -> <<O_neg>>
          [] g = A_pos  -> <<A_pos, A_neg, O_pos, O_neg>>
          [] g = A_neg  -> <<A_neg, O_neg>>
          [] g = B_pos  -> <<B_pos, B_neg, O_pos, O_neg>>
          [] g = B_neg  -> <<B_neg, O_neg>>
          [] g = AB_pos -> <<A_pos, A_neg, B_pos, B_neg, O_pos, O_neg, AB_pos, AB_neg>>
          [] g = AB_neg -> <<A_neg, B_neg, O_neg, AB_neg>>]

\* x in list
InList(x, list) == \E i \in 1..Len(list) : list[i] = x

\* get_compatible_blood_groups with the group looked up as it is written,
\* without strip() and upper().
get_compatible_blood_groups_as_written(rules, requested_blood_group) ==
    IF requested_blood_group \notin DOMAIN rules THEN <<>> ELSE rules[requested_blood_group]

get_compatible_blood_groups(rules, requested_blood_group) ==
    LET requested == upper(strip(requested_blood_group))
    IN  IF requested \notin DOMAIN rules THEN <<>> ELSE rules[requested]

\* is_compatible with the two groups taken the other way round: the table is
\* read at the donor's group and searched for the requested one.
is_compatible_swapped(rules, donor_blood_group, requested_blood_group) ==
    LET compatible_blood_groups == get_compatible_blood_groups(rules, donor_blood_group)
        requested == upper(strip(requested_blood_group))
    IN  InList(requested, compatible_blood_groups)

is_compatible(rules, donor_blood_group, requested_blood_group) ==
    LET compatible_blood_groups == get_compatible_blood_groups(rules, requested_blood_group)
        donor == upper(strip(donor_blood_group))
    IN  InList(donor, compatible_blood_groups)

get_all_valid_blood_groups(rules) == SelectSeq(RuleKeys, LAMBDA g : g \in DOMAIN rules)

\* donor.get('blood_group', ''): the value under the key, '' when the dict has
\* no such key.
DonorBloodGroup(donor) == IF "blood_group" \in DOMAIN donor THEN donor.blood_group ELSE <<>>

\* Whether filter_compatible_donors ends in AttributeError: the comprehension
\* is reached (the list of compatible groups is not empty) and calls .strip()
\* on the blood_group of a donor dict that holds None under that key.
FilterRaises(rules, requested_blood_group, available_donors) ==
    /\ get_compatible_blood_groups(rules, requested_blood_group) # <<>>
    /\ \E i \in 1..Len(available_donors) : DonorBloodGroup(available_donors[i]) = None

\* filter_compatible_donors with the donor's group compared as it is written,
\* without strip() and upper().
filter_compatible_donors_as_written(rules, requested_blood_group, available_donors) ==
    LET compatible_blood_groups == get_compatible_blood_groups(rules, requested_blood_group)
    IN  IF compatible_blood_groups = <<>>
        THEN <<>>
        ELSE SelectSeq(available_donors,
                       LAMBDA donor : InList(DonorBloodGroup(donor), compatible_blood_groups))

\* filter_compatible_donors with the table read at the donor's group and
\* searched for the requested one.
filter_compatible_donors_swapped(rules, requested_blood_group, available_donors) ==
    LET compatible_blood_groups == get_compatible_blood_groups(rules, requested_blood_group)
    IN  IF compatible_blood_groups = <<>>
        THEN <<>>
        ELSE SelectSeq(available_donors,
                       LAMBDA donor : is_compatible_swapped(rules, DonorBloodGroup(donor),
                                                            requested_blood_group))

\* filter_compatible_donors, for a call that does not raise.
filter_compatible_donors(rules, requested_blood_group, available_donors) ==
    LET compatible_blood_groups == get_compatible_blood_groups(rules, requested_blood_group)
    IN  IF compatible_blood_groups = <<>>
        THEN <<>>
        ELSE SelectSeq(available_donors,
                       LAMBDA donor : InList(upper(strip(DonorBloodGroup(donor))),
                                             compatible_blood_groups))

\* ------------------------------------------------------------------ app.py: state
\* datetime.now().strftime(...): the reading of the clock, one opaque text.
Timestamp == <<"t">>

\* str(uuid.uuid4())[:8]: 8 hexadecimal digits drawn at random. The model draws
\* from two of the 16^8 values; nothing in the code keeps a value from being
\* drawn twice.
Uuid_a == <<"0","0","0","0","0","0","0","a">>
Uuid_b == <<"0","0","0","0","0","0","0","b">>
UuidValues == {Uuid_a, Uuid_b}

\* f"{prefix}{str(uuid.uuid4())[:8]}", given the digits the generator drew
generate_unique_id(prefix, uuid) == prefix \o uuid

RequestIds == {generate_unique_id(<<"r","e","q","_">>, u) : u \in UuidValues}

\* 'user_email' in session, and get_current_user(): the user the session names.
\* A session names an e-mail only after a login, and users are never removed.
is_user_logged_in(session) == session # None /\ session \in DOMAIN users

get_current_user(session) == users[session]

Sessions == DOMAIN users \cup {None}

\* The first request of the list with this id; 0 when there is none
\* (the for/break loop of donate_blood and confirm_request).
FindRequest(list, request_id) ==
    IF \E i \in 1..Len(list) : list[i].id = request_id
    THEN CHOOSE i \in 1..Len(list) :
            /\ list[i].id = request_id
            /\ \A j \in 1..(i - 1) : list[j].id # request_id
    ELSE 0

\* The threads of the server that serve donate_blood calls. A thread that is
\* not idle has passed the checks of a POST and holds current_user (by its
\* session), request_id and blood_request (by its place in requests_list).
Threads == {"t1", "t2"}

IdleThread == [pc |-> "idle", session |-> None, request_id |-> None, blood_request |-> 0]

\* No call is being made on the engine alone.
NoEngineCall == [op |-> "none"]

Init ==
    /\ BLOOD_COMPATIBILITY_RULES = InitialRules
    /\ users = <<>>
    /\ users_order = <<>>
    /\ requests_list = <<>>
    /\ donation_history = <<>>
    /\ threads = [t \in Threads |-> IdleThread]
    /\ engine = NoEngineCall

\* ------------------------------------------------------------------ app.py: register
\* register() without the check of the e-mail against the registered ones.
RegisterErrorNoDuplicateCheck(user_type, method, name, email, password, blood_group) ==
    IF ~InList(lower(user_type), <<<<"d","o","n","o","r">>, <<"r","e","q","u","e","s","t","o","r">>>>)
    THEN "InvalidUserType"
    ELSE IF method # "POST"
    THEN "none"
    ELSE IF name = <<>> \/ email = <<>> \/ password = <<>>
    THEN "ValidationError"
    ELSE IF lower(user_type) = <<"d","o","n","o","r">> /\ blood_group = <<>>
    THEN "ValidationError"
    ELSE IF /\ lower(user_type) = <<"d","o","n","o","r">>
            /\ ~InList(blood_group, get_all_valid_blood_groups(BLOOD_COMPATIBILITY_RULES))
    THEN "ValidationError"
    ELSE "none"

\* Which check of register() refuses the form, "none" when all pass. The
\* form fields are read and validated only when the method is POST.
RegisterError(user_type, method, name, email, password, blood_group) ==
    IF ~InList(lower(user_type), <<<<"d","o","n","o","r">>, <<"r","e","q","u","e","s","t","o","r">>>>)
    THEN "InvalidUserType"
    ELSE IF method # "POST"
    THEN "none"
    ELSE IF name = <<>> \/ email = <<>> \/ password = <<>>
    THEN "ValidationError"
    ELSE IF lower(user_type) = <<"d","o","n","o","r">> /\ blood_group = <<>>
    THEN "ValidationError"
    ELSE IF /\ lower(user_type) = <<"d","o","n","o","r">>
            /\ ~InList(blood_group, get_all_valid_blood_groups(BLOOD_COMPATIBILITY_RULES))
    THEN "ValidationError"
    ELSE IF email \in DOMAIN users
    THEN "DuplicateEmailError"
    ELSE "none"

\* Whether the call reaches the block that stores the new user.
RegisterStores(user_type, method, name, email, password, blood_group) ==
    RegisterError(user_type, method, name, email, password, blood_group) = "none" /\ method = "POST"

\* The user record register() stores.
NewUser(user_type, name, email, blood_group) ==
    [name |-> name,
     email |-> email,
     blood_group |-> IF lower(user_type) = <<"d","o","n","o","r">> THEN blood_group ELSE None,
     role |-> IF lower(user_type) = <<"d","o","n","o","r">> THEN "Donor" ELSE "Requestor",
     registered_at |-> Timestamp]

\* /register/<user_type> with the raw form fields.
register(user_type, method, raw_name, raw_email, password, raw_blood_group) ==
    LET name        == strip(raw_name)
        email       == lower(strip(raw_email))
        blood_group == upper(strip(raw_blood_group))
    IN  /\ users' = IF RegisterStores(user_type, method, name, email, password, blood_group)
                    THEN (email :> NewUser(user_type, name, email, blood_group)) @@ users
                    ELSE users
        /\ users_order' = IF /\ RegisterStores(user_type, method, name, email, password, blood_group)
                             /\ NewUser(user_type, name, email, blood_group).role = "Donor"
                          THEN Append(users_order, email)
                          ELSE users_order
        /\ UNCHANGED <<BLOOD_COMPATIBILITY_RULES, requests_list, donation_history, threads, engine>>

\* ------------------------------------------------------------------ app.py: create_request
\* The units check with "units < 0" for "units <= 0".
UnitsValidOrZero(raw_units) == int(raw_units).ok /\ int(raw_units).value >= 0

\* try: units = int(units); if units <= 0: raise ValueError
UnitsValid(raw_units) == int(raw_units).ok /\ int(raw_units).value > 0

\* Which check of create_request() refuses the call, "none" when all pass.
\* The form fields are read and validated only when the method is POST.
CreateError(session, method, blood_group, raw_units) ==
    IF ~is_user_logged_in(session)
    THEN "NotLoggedIn"
    ELSE IF get_current_user(session).role # "Requestor"
    THEN "RoleMismatch"
    ELSE IF method # "POST"
    THEN "none"
    ELSE IF ~InList(blood_group, get_all_valid_blood_groups(BLOOD_COMPATIBILITY_RULES))
    THEN "ValidationError"
    ELSE IF ~UnitsValid(raw_units)
    THEN "ValidationError"
    ELSE "none"

\* Whether the call reaches the block that appends the new request.
CreateAppends(session, method, blood_group, raw_units) ==
    CreateError(session, method, blood_group, raw_units) = "none" /\ method = "POST"

\* The request record create_request() appends.
NewRequest(current_user, request_id, blood_group, units) ==
    [id |-> request_id,
     blood_group |-> blood_group,
     units |-> units,
     requestor_email |-> current_user.email,
     requestor_name |-> current_user.name,
     donor_email |-> None,
     donor_name |-> None,
     status |-> "Requested",
     timestamp |-> Timestamp,
     accepted_at |-> None,
     confirmed_at |-> None,
     compatibility_info |-> get_compatible_blood_groups(BLOOD_COMPATIBILITY_RULES, blood_group)]

\* list.reverse()
RECURSIVE Reverse(_)
Reverse(list) == IF list = <<>> THEN <<>> ELSE Append(Reverse(Tail(list)), Head(list))

\* create_request with the list it got from the engine reversed in place
\* before it is stored. get_compatible_blood_groups returns the list that the
\* table holds, not a copy, so the entry of the table is reversed with it.
create_request_reversing_snapshot(session, method, raw_blood_group, raw_units, uuid) ==
    LET blood_group == upper(strip(raw_blood_group))
        appends     == CreateAppends(session, method, blood_group, raw_units)
    IN  /\ appends => Len(requests_list) < MaxRequests
        /\ requests_list' =
              IF appends
              THEN Append(requests_list,
                          [NewRequest(get_current_user(session),
                                      generate_unique_id(<<"r","e","q","_">>, uuid),
                                      blood_group, int(raw_units).value)
                              EXCEPT !.compatibility_info = Reverse(@)])
              ELSE requests_list
        /\ BLOOD_COMPATIBILITY_RULES' =
              IF appends
              THEN [BLOOD_COMPATIBILITY_RULES EXCEPT ![blood_group] = Reverse(@)]
              ELSE BLOOD_COMPATIBILITY_RULES
        /\ UNCHANGED <<users, users_order, donation_history, threads, engine>>

\* /request: GET shows the form, POST validates the fields and appends.
\* uuid is what the random id generator draws in this call.
create_request(session, method, raw_blood_group, raw_units, uuid) ==
    LET blood_group == upper(strip(raw_blood_group))
        appends     == CreateAppends(session, method, blood_group, raw_units)
    IN  /\ appends => Len(requests_list) < MaxRequests
        /\ requests_list' =
              IF appends
              THEN Append(requests_list,
                          NewRequest(get_current_user(session),
                                     generate_unique_id(<<"r","e","q","_">>, uuid),
                                     blood_group, int(raw_units).value))
              ELSE requests_list
        /\ UNCHANGED <<BLOOD_COMPATIBILITY_RULES, users, users_order, donation_history, threads, engine>>

\* ------------------------------------------------------------------ app.py: donate_blood
\* donate_blood with the compatibility check moved before the status check.
DonateErrorCompatibilityFirst(session, request_id) ==
    LET i == FindRequest(requests_list, request_id)
    IN  IF ~is_user_logged_in(session)
        THEN "NotLoggedIn"
        ELSE IF get_current_user(session).role # "Donor"
        THEN "RoleMismatch"
        ELSE IF i = 0
        THEN "NotFound"
        ELSE IF ~is_compatible(BLOOD_COMPATIBILITY_RULES,
                               get_current_user(session).blood_group,
                               requests_list[i].blood_group)
        THEN "IncompatibleBloodGroup"
        ELSE IF requests_list[i].status # "Requested"
        THEN "InvalidState"
        ELSE "none"

\* donate_blood with the search for the request moved before the role check.
DonateErrorSearchFirst(session, request_id) ==
    LET i == FindRequest(requests_list, request_id)
    IN  IF ~is_user_logged_in(session)
        THEN "NotLoggedIn"
        ELSE IF i = 0
        THEN "NotFound"
        ELSE IF get_current_user(session).role # "Donor"
        THEN "RoleMismatch"
        ELSE IF requests_list[i].status # "Requested"
        THEN "InvalidState"
        ELSE IF ~is_compatible(BLOOD_COMPATIBILITY_RULES,
                               get_current_user(session).blood_group,
                               requests_list[i].blood_group)
        THEN "IncompatibleBloodGroup"
        ELSE "none"

\* Which check of donate_blood() refuses the call, "none" when all pass.
DonateError(session, request_id) ==
    LET i == FindRequest(requests_list, request_id)
    IN  IF ~is_user_logged_in(session)
        THEN "NotLoggedIn"
        ELSE IF get_current_user(session).role # "Donor"
        THEN "RoleMismatch"
        ELSE IF i = 0
        THEN "NotFound"
        ELSE IF requests_list[i].status # "Requested"
        THEN "InvalidState"
        ELSE IF ~is_compatible(BLOOD_COMPATIBILITY_RULES,
                               get_current_user(session).blood_group,
                               requests_list[i].blood_group)
        THEN "IncompatibleBloodGroup"
        ELSE "none"

\* donate_blood with the accepting block placed before the compatibility check:
\* the request is written although the call is then refused.
DonateAcceptsBeforeCompatibility(session, request_id, method) ==
    DonateError(session, request_id) \in {"none", "IncompatibleBloodGroup"} /\ method = "POST"

\* Whether the call reaches the block that accepts the request.
DonateAccepts(session, request_id, method) ==
    DonateError(session, request_id) = "none" /\ method = "POST"

\* blood_request['donor_email'] = ...; blood_request['donor_name'] = ...
WriteDonor(blood_request, current_user) ==
    [blood_request EXCEPT !.donor_email = current_user.email,
                          !.donor_name = current_user.name]

\* The accepting block without its last line: the status is written, the time
\* of acceptance is not.
WriteAcceptedUnstamped(blood_request) ==
    [blood_request EXCEPT !.status = "Accepted"]

\* blood_request['status'] = 'Accepted'; blood_request['accepted_at'] = now
WriteAccepted(blood_request) ==
    [blood_request EXCEPT !.status = "Accepted", !.accepted_at = Timestamp]

record_donation(history, donor_email, request_id, blood_group, requestor_email) ==
    LET donation_record == [request_id |-> request_id,
                            blood_group |-> blood_group,
                            requestor_email |-> requestor_email,
                            date_time |-> Timestamp]
        log == IF donor_email \in DOMAIN history THEN history[donor_email] ELSE <<>>
    IN  (donor_email :> Append(log, donation_record)) @@ history

\* /donate-blood/<request_id>, served to its end without another call in between.
donate_blood(session, request_id, method) ==
    LET i == FindRequest(requests_list, request_id)
    IN  /\ IF DonateAccepts(session, request_id, method)
           THEN /\ requests_list' =
                      [requests_list EXCEPT
                          ![i] = WriteAccepted(WriteDonor(@, get_current_user(session)))]
                /\ donation_history' =
                      record_donation(donation_history, get_current_user(session).email,
                                      request_id, requests_list[i].blood_group,
                                      requests_list[i].requestor_email)
           ELSE UNCHANGED <<requests_list, donation_history>>
        /\ UNCHANGED <<BLOOD_COMPATIBILITY_RULES, users, users_order, threads, engine>>

\* ------------------------------------------------------------------ app.py: confirm_request
\* confirm_request without its status check.
ConfirmErrorAnyStatus(session, request_id) ==
    LET i == FindRequest(requests_list, request_id)
    IN  IF ~is_user_logged_in(session)
        THEN "NotLoggedIn"
        ELSE IF i = 0
        THEN "NotFound"
        ELSE IF requests_list[i].requestor_email # get_current_user(session).email
        THEN "NotOwner"
        ELSE "none"

\* confirm_request without its ownership check.
ConfirmErrorAnyCaller(session, request_id) ==
    LET i == FindRequest(requests_list, request_id)
    IN  IF ~is_user_logged_in(session)
        THEN "NotLoggedIn"
        ELSE IF i = 0
        THEN "NotFound"
        ELSE IF requests_list[i].status # "Accepted"
        THEN "InvalidState"
        ELSE "none"

\* Which check of confirm_request() refuses the call, "none" when all pass.
ConfirmError(session, request_id) ==
    LET i == FindRequest(requests_list, request_id)
    IN  IF ~is_user_logged_in(session)
        THEN "NotLoggedIn"
        ELSE IF i = 0
        THEN "NotFound"
        ELSE IF requests_list[i].requestor_email # get_current_user(session).email
        THEN "NotOwner"
        ELSE IF requests_list[i].status # "Accepted"
        THEN "InvalidState"
        ELSE "none"

\* Whether the call reaches the block that confirms the request.
ConfirmWrites(session, request_id, method) ==
    ConfirmError(session, request_id) = "none" /\ method = "POST"

\* blood_request['status'] = 'Confirmed'; blood_request['confirmed_at'] = now
WriteConfirmed(blood_request) ==
    [blood_request EXCEPT !.status = "Confirmed", !.confirmed_at = Timestamp]

\* /confirm/<request_id>
confirm_request(session, request_id, method) ==
    LET i == FindRequest(requests_list, request_id)
    IN  /\ requests_list' =
              IF ConfirmWrites(session, request_id, method)
              THEN [requests_list EXCEPT ![i] = WriteConfirmed(@)]
              ELSE requests_list
        /\ UNCHANGED <<BLOOD_COMPATIBILITY_RULES, users, users_order, donation_history, threads, engine>>

\* ------------------------------------------------------------------ app.py: the views
\* users.values(), in the order the dict keeps its keys, for the donors
RECURSIVE UserValues(_)
UserValues(order) ==
    IF order = <<>> THEN <<>> ELSE <<users[Head(order)]>> \o UserValues(Tail(order))

get_donor_list == SelectSeq(UserValues(users_order), LAMBDA user : user.role = "Donor")

\* get_active_requests with the Accepted requests kept and the Confirmed ones
\* left out.
get_active_requests_until_confirmed(list) ==
    SelectSeq(list, LAMBDA req : req.status \in {"Requested", "Accepted"})

\* get_user_requests without the test of the role in its second branch: every
\* role but Requestor is answered as Donor is.
get_user_requests_any_role(list, user_email, role) ==
    IF role = "Requestor"
    THEN SelectSeq(list, LAMBDA req : req.requestor_email = user_email)
    ELSE SelectSeq(list, LAMBDA req : req.donor_email = user_email)

get_user_requests(list, user_email, role) ==
    IF role = "Requestor"
    THEN SelectSeq(list, LAMBDA req : req.requestor_email = user_email)
    ELSE IF role = "Donor"
    THEN SelectSeq(list, LAMBDA req : req.donor_email = user_email)
    ELSE <<>>

get_active_requests(list) ==
    SelectSeq(list, LAMBDA req : req.status \in {"Requested", "Confirmed"})

get_compatible_donors_for_request(blood_group) ==
    filter_compatible_donors(BLOOD_COMPATIBILITY_RULES, blood_group, get_donor_list)

\* The blood groups of a list of donor dicts.
RECURSIVE BloodGroupsOf(_)
BloodGroupsOf(donors) ==
    IF donors = <<>> THEN <<>> ELSE <<Head(donors).blood_group>> \o BloodGroupsOf(Tail(donors))

\* The loop of the dashboard writing under the key compatibility_info, the
\* groups of the donors registered by now that can serve the request.
EnrichCompatibilityInfo(req) ==
    [req EXCEPT !.compatibility_info =
        BloodGroupsOf(get_compatible_donors_for_request(req.blood_group))]

\* req['compatible_donors'] = compatible_donors: the request dict gets the key,
\* or a new value under it.
Enrich(req) ==
    ("compatible_donors" :> get_compatible_donors_for_request(req.blood_group)) @@ req

\* The loop of the donor's dashboard. get_active_requests() is a new list of
\* the dicts that requests_list holds, so the loop writes on the stored requests.
RECURSIVE EnrichActive(_)
EnrichActive(list) ==
    IF list = <<>> THEN <<>>
    ELSE <<IF Head(list).status \in {"Requested", "Confirmed"} THEN Enrich(Head(list)) ELSE Head(list)>>
         \o EnrichActive(Tail(list))

\* Whether the call reaches the loop of the donor's dashboard and the loop
\* runs to its end.
DashboardEnriches(session) ==
    /\ is_user_logged_in(session)
    /\ get_current_user(session).role = "Donor"
    /\ \A k \in 1..Len(requests_list) :
          ~FilterRaises(BLOOD_COMPATIBILITY_RULES, requests_list[k].blood_group, get_donor_list)

\* /dashboard: a Requestor is shown the requests of their own, a Donor the
\* active requests, each with the donors that can serve it.
dashboard(session) ==
    /\ requests_list' = IF DashboardEnriches(session)
                        THEN EnrichActive(requests_list)
                        ELSE requests_list
    /\ UNCHANGED <<BLOOD_COMPATIBILITY_RULES, users, users_order, donation_history, threads, engine>>

\* /donors: reads users, writes nothing.
view_donors(session) == UNCHANGED vars

\* /donor/<donor_email>: reads users, donation_history and the active
\* requests, writes nothing.
donor_profile(session, donor_email) == UNCHANGED vars

\* ------------------------------------------------------------------ donate_blood, step by step
\* The server runs each call on a thread of its own (app.run with the default
\* threaded=True) and the handlers take no lock, so the steps of one
\* donate_blood call interleave with every other call.

\* Lines 493-524: current_user, the search, the checks. A call that is refused,
\* or a GET, ends here and has changed nothing.
DonateCheck(t, session, request_id, method) ==
    /\ threads[t].pc = "idle"
    /\ threads' =
          IF DonateAccepts(session, request_id, method)
          THEN [threads EXCEPT ![t] = [pc |-> "write_donor",
                                       session |-> session,
                                       request_id |-> request_id,
                                       blood_request |-> FindRequest(requests_list, request_id)]]
          ELSE threads
    /\ UNCHANGED <<BLOOD_COMPATIBILITY_RULES, users, users_order, requests_list, donation_history, engine>>

\* Lines 526-527
DonateWriteDonor(t) ==
    /\ threads[t].pc = "write_donor"
    /\ requests_list' =
          [requests_list EXCEPT
              ![threads[t].blood_request] = WriteDonor(@, get_current_user(threads[t].session))]
    /\ threads' = [threads EXCEPT ![t].pc = "write_status"]
    /\ UNCHANGED <<BLOOD_COMPATIBILITY_RULES, users, users_order, donation_history, engine>>

\* Lines 528-529
DonateWriteStatus(t) ==
    /\ threads[t].pc = "write_status"
    /\ requests_list' =
          [requests_list EXCEPT ![threads[t].blood_request] = WriteAccepted(@)]
    /\ threads' = [threads EXCEPT ![t].pc = "record_donation"]
    /\ UNCHANGED <<BLOOD_COMPATIBILITY_RULES, users, users_order, donation_history, engine>>

\* Lines 532-540
DonateRecord(t) ==
    /\ threads[t].pc = "record_donation"
    /\ donation_history' =
          record_donation(donation_history,
                          get_current_user(threads[t].session).email,
                          threads[t].request_id,
                          requests_list[threads[t].blood_request].blood_group,
                          requests_list[threads[t].blood_request].requestor_email)
    /\ threads' = [threads EXCEPT ![t] = IdleThread]
    /\ UNCHANGED <<BLOOD_COMPATIBILITY_RULES, users, users_order, requests_list, engine>>

\* ------------------------------------------------------------------ inputs
Methods == {"GET", "POST"}

donor == <<"d","o","n","o","r">>
Requestor == <<"R","e","q","u","e","s","t","o","r">>

RegisterForm(user_type, method, name, email, password, blood_group) ==
    [user_type |-> user_type, method |-> method, name |-> name, email |-> email,
     password |-> password, blood_group |-> blood_group]

\* The registration calls made: three people, then a second form for the
\* e-mail of the first (other case, other role), a GET, and one form for each
\* way a form can be refused.
PeopleForms ==
    { RegisterForm(donor, "POST", <<"N">>, <<"d","1">>, <<"p">>, O_neg),
      RegisterForm(donor, "POST", <<"N">>, <<"d","2">>, <<"p">>, <<" ","a","+"," ">>),
      RegisterForm(Requestor, "POST", <<"N">>, <<"r","1">>, <<"p">>, <<>>) }

RegisterForms ==
    PeopleForms \cup
    { RegisterForm(Requestor, "POST", <<" ","N"," ">>, <<" ","D","1">>, <<"p">>, A_pos),
      RegisterForm(donor, "GET", <<>>, <<>>, <<>>, <<>>),
      RegisterForm(<<"a","d","m","i","n">>, "POST", <<"N">>, <<"d","2">>, <<"p">>, O_neg),
      RegisterForm(donor, "POST", <<" ">>, <<"d","2">>, <<"p">>, O_neg),
      RegisterForm(donor, "POST", <<"N">>, <<" ">>, <<"p">>, O_neg),
      RegisterForm(Requestor, "POST", <<"N">>, <<"r","1">>, <<>>, <<>>),
      RegisterForm(donor, "POST", <<"N">>, <<"d","2">>, <<"p">>, <<>>),
      RegisterForm(donor, "POST", <<"N">>, <<"d","2">>, <<"p">>, <<"X","+">>) }

RequestForm(method, blood_group, units, uuid) ==
    [method |-> method, blood_group |-> blood_group, units |-> units, uuid |-> uuid]

\* The request calls made, each with the digits the id generator draws in it:
\* two forms that pass, under either id, a GET, and one form for each way a
\* form can be refused.
PassingRequestForms ==
    { RequestForm("POST", <<"o","-">>, <<"1">>, u) : u \in UuidValues }
    \cup { RequestForm("POST", <<" ","A","+"," ">>, <<" ","+","2">>, u) : u \in UuidValues }

\* The request calls of the threaded runs: the form for A+, which both donors
\* can serve, under either id.
ThreadedRequestForms == { f \in PassingRequestForms : upper(strip(f.blood_group)) = A_pos }

RequestForms ==
    PassingRequestForms
    \cup { RequestForm("GET", <<>>, <<"0">>, Uuid_a) }
    \cup { RequestForm("POST", b, <<"1">>, Uuid_a) : b \in {<<"X","+">>, <<>>} }
    \cup { RequestForm("POST", O_neg, n, Uuid_b) :
              n \in {<<"0">>, <<"-","1">>, <<"1",".","5">>, <<"x">>, <<>>} }

\* ------------------------------------------------------------------ specifications
Register ==
    \E f \in RegisterForms :
        register(f.user_type, f.method, f.name, f.email, f.password, f.blood_group)

CreateRequest ==
    \E session \in Sessions, f \in RequestForms :
        create_request(session, f.method, f.blood_group, f.units, f.uuid)

DonateBlood ==
    \E session \in Sessions, request_id \in RequestIds, method \in Methods :
        donate_blood(session, request_id, method)

ConfirmRequest ==
    \E session \in Sessions, request_id \in RequestIds, method \in Methods :
        confirm_request(session, request_id, method)

Dashboard == \E session \in Sessions : dashboard(session)

ViewDonors == \E session \in Sessions : view_donors(session)

DonorProfile == \E session \in Sessions, donor_email \in DOMAIN users : donor_profile(session, donor_email)

Next == Register \/ CreateRequest \/ DonateBlood \/ ConfirmRequest

\* Every handler call served to its end before the next one starts.
Spec == Init /\ [][Next]_vars

\* ------------------------------------------------------------------ the engine alone
\* A call of one function of ai_engine.py: its arguments, and what it returned
\* once it has (pc = "return") or that it raised (pc = "raise").
EngineCall(op, donor_blood_group, requested_blood_group, available_donors) ==
    [op |-> op, pc |-> "call",
     donor_blood_group |-> donor_blood_group,
     requested_blood_group |-> requested_blood_group,
     available_donors |-> available_donors,
     returned |-> <<>>]

\* The blood group texts the engine is called with: the 8 groups, groups
\* typed in lower case or with white space around, texts that are no group,
\* and None.
GroupTexts ==
    {O_pos, O_neg, A_pos, A_neg, B_pos, B_neg, AB_pos, AB_neg}
    \cup { <<" ","a","+"," ">>, <<"a","b","-">>, <<"o","-","\n">>, <<"\t","B","+">> }
    \cup { <<"X","+">>, <<>>, <<" ">>, <<"A">>, <<"A","B">>, <<"A"," ","+">>, <<"+","A">>, None }

\* The donor dicts handed to filter_compatible_donors: those of the docstring
\* (donor1 A+, donor2 AB+, donor3 B+), a donor of O-, one whose group is typed
\* " o- ", a dict without the key blood_group, and the dict of a user stored
\* with blood_group None.
donor1 == [email |-> <<"d","o","n","o","r","1">>, blood_group |-> A_pos]
donor2 == [email |-> <<"d","o","n","o","r","2">>, blood_group |-> AB_pos]
donor3 == [email |-> <<"d","o","n","o","r","3">>, blood_group |-> B_pos]
donor4 == [email |-> <<"d","o","n","o","r","4">>, blood_group |-> O_neg]
donor5 == [email |-> <<"d","o","n","o","r","5">>, blood_group |-> <<" ","o","-"," ">>]
donor6 == [email |-> <<"d","o","n","o","r","6">>]
donor7 == [email |-> <<"r","1">>, blood_group |-> None]

Candidates == {donor1, donor2, donor3, donor4, donor5, donor6, donor7}

\* The lists of at most n candidates.
RECURSIVE CandidateLists(_)
CandidateLists(n) ==
    IF n = 0 THEN {<<>>}
    ELSE CandidateLists(n - 1)
         \cup { Append(l, c) : l \in { m \in CandidateLists(n - 1) : Len(m) = n - 1 }, c \in Candidates }

\* The requested groups filter_compatible_donors is called with.
FilterRequested == {A_pos, <<" ","a","+"," ">>, AB_neg, O_neg, <<"X","+">>, <<>>}

EngineCalls ==
    { EngineCall("get_compatible_blood_groups", <<>>, r, <<>>) : r \in GroupTexts }
    \cup { EngineCall("is_compatible", d, r, <<>>) : d \in GroupTexts, r \in GroupTexts }
    \cup { EngineCall("filter_compatible_donors", <<>>, r, l) :
               r \in FilterRequested, l \in CandidateLists(MaxCandidates) }
    \cup { EngineCall("get_all_valid_blood_groups", <<>>, <<>>, <<>>) }

EngineInit ==
    /\ BLOOD_COMPATIBILITY_RULES = InitialRules
    /\ users = <<>>
    /\ users_order = <<>>
    /\ requests_list = <<>>
    /\ donation_history = <<>>
    /\ threads = [t \in Threads |-> IdleThread]
    /\ engine \in EngineCalls

GetCompatibleBloodGroups ==
    /\ engine.op = "get_compatible_blood_groups"
    /\ engine.pc = "call"
    /\ engine' = [engine EXCEPT
                     !.pc = "return",
                     !.returned = get_compatible_blood_groups(BLOOD_COMPATIBILITY_RULES,
                                                              engine.requested_blood_group)]
    /\ UNCHANGED <<BLOOD_COMPATIBILITY_RULES, users, users_order, requests_list, donation_history, threads>>

IsCompatible ==
    /\ engine.op = "is_compatible"
    /\ engine.pc = "call"
    /\ engine' = [engine EXCEPT
                     !.pc = "return",
                     !.returned = is_compatible(BLOOD_COMPATIBILITY_RULES,
                                                engine.donor_blood_group,
                                                engine.requested_blood_group)]
    /\ UNCHANGED <<BLOOD_COMPATIBILITY_RULES, users, users_order, requests_list, donation_history, threads>>

FilterCompatibleDonors ==
    /\ engine.op = "filter_compatible_donors"
    /\ engine.pc = "call"
    /\ engine' =
          IF FilterRaises(BLOOD_COMPATIBILITY_RULES, engine.requested_blood_group,
                          engine.available_donors)
          THEN [engine EXCEPT !.pc = "raise"]
          ELSE [engine EXCEPT
                   !.pc = "return",
                   !.returned = filter_compatible_donors(BLOOD_COMPATIBILITY_RULES,
                                                         engine.requested_blood_group,
                                                         engine.available_donors)]
    /\ UNCHANGED <<BLOOD_COMPATIBILITY_RULES, users, users_order, requests_list, donation_history, threads>>

GetAllValidBloodGroups ==
    /\ engine.op = "get_all_valid_blood_groups"
    /\ engine.pc = "call"
    /\ engine' = [engine EXCEPT
                     !.pc = "return",
                     !.returned = get_all_valid_blood_groups(BLOOD_COMPATIBILITY_RULES)]
    /\ UNCHANGED <<BLOOD_COMPATIBILITY_RULES, users, users_order, requests_list, donation_history, threads>>

EngineNext ==
    \/ GetCompatibleBloodGroups
    \/ IsCompatible
    \/ FilterCompatibleDonors
    \/ GetAllValidBloodGroups

\* One call of a function of the engine, on arguments fixed at the start.
EngineSpec == EngineInit /\ [][EngineNext]_vars

\* ------------------------------------------------------------------ the handlers and the views
ViewsNext ==
    \/ Register
    \/ CreateRequest
    \/ DonateBlood
    \/ ConfirmRequest
    \/ Dashboard
    \/ ViewDonors
    \/ DonorProfile

\* The calls that change users, requests and donation logs, and the views
\* (/dashboard, /donors, /donor/<donor_email>) among them.
ViewsSpec == Init /\ [][ViewsNext]_vars

\* The calls of the threaded runs: the forms that pass, and POSTs.
ThreadedRegister ==
    \E f \in PeopleForms :
        register(f.user_type, f.method, f.name, f.email, f.password, f.blood_group)

ThreadedCreateRequest ==
    \E session \in Sessions, f \in ThreadedRequestForms :
        create_request(session, f.method, f.blood_group, f.units, f.uuid)

ThreadedConfirmRequest ==
    \E session \in Sessions, request_id \in RequestIds :
        confirm_request(session, request_id, "POST")

DonateBloodCheck ==
    \E t \in Threads, session \in Sessions, request_id \in RequestIds :
        DonateCheck(t, session, request_id, "POST")

DonateBloodWriteDonor == \E t \in Threads : DonateWriteDonor(t)

DonateBloodWriteStatus == \E t \in Threads : DonateWriteStatus(t)

DonateBloodRecord == \E t \in Threads : DonateRecord(t)

ThreadedNext ==
    \/ ThreadedRegister
    \/ ThreadedCreateRequest
    \/ ThreadedConfirmRequest
    \/ DonateBloodCheck
    \/ DonateBloodWriteDonor
    \/ DonateBloodWriteStatus
    \/ DonateBloodRecord

\* The calls served as the threaded server serves them: the steps of the
\* donate_blood calls in flight interleave with each other and with the
\* other calls.
ThreadedSpec == Init /\ [][ThreadedNext]_vars

\* ------------------------------------------------------------------ the claims
\* The places <<donor, k>> of the donation records that name this request id.
RecordsOf(request_id) ==
    { p \in UNION { { <<e, k>> : k \in 1..Len(donation_history[e]) } : e \in DOMAIN donation_history } :
        donation_history[p[1]][p[2]].request_id = request_id }

\* C1: for any one request id, however the steps of the donate_blood calls of
\* two or more donors interleave, at most one of the calls goes through: the
\* DonationRecords appended for that request id are never in the logs of two
\* donors.
C1_AtMostOneAcceptSucceeds ==
    \A request_id \in RequestIds :
        Cardinality({ p[1] : p \in RecordsOf(request_id) }) <= 1

\* C2: the status of every request only moves Requested -> Accepted ->
\* Confirmed: never backwards, never from Requested straight to Confirmed,
\* and a Confirmed request keeps its status; no request leaves the list.
C2_StatusMovesForward ==
    [][ /\ Len(requests_list') >= Len(requests_list)
        /\ \A k \in 1..Len(requests_list) :
              <<requests_list[k].status, requests_list'[k].status>> \in
                  { <<"Requested", "Requested">>, <<"Requested", "Accepted">>,
                    <<"Accepted", "Accepted">>, <<"Accepted", "Confirmed">>,
                    <<"Confirmed", "Confirmed">> } ]_vars

\* C2's case: a request has gone all the way to Confirmed.
C2_Witness == \E k \in 1..Len(requests_list) : requests_list[k].status = "Confirmed"

\* The eight blood groups, and the donor groups the table allows for a
\* requested group (compatibleDonors).
ValidGroups == {O_pos, O_neg, A_pos, A_neg, B_pos, B_neg, AB_pos, AB_neg}

CompatibleDonors(requested) == { InitialRules[requested][i] : i \in 1..Len(InitialRules[requested]) }

\* The registered users with role Donor.
Donors == { e \in DOMAIN users : users[e].role = "Donor" }

\* The requests a call naming request_id finds (at most one).
Found(request_id) ==
    { requests_list[k] : k \in { FindRequest(requests_list, request_id) } \ {0} }

\* C3: an accept goes through only if the donor's own group is among the
\* compatible donors of the requested group; a donor whose group is not is
\* refused with IncompatibleBloodGroup and the request stays as it was. Hence
\* every Accepted or Confirmed request records a registered Donor whose group
\* is compatible with the requested group.
C3_AcceptOnlyByCompatibleDonor ==
    /\ [](/\ \A e \in DOMAIN users, request_id \in RequestIds :
                DonateAccepts(e, request_id, "POST") =>
                    \A req \in Found(request_id) :
                        users[e].blood_group \in CompatibleDonors(req.blood_group)
          /\ \A e \in Donors, request_id \in RequestIds :
                \A req \in Found(request_id) :
                    (/\ req.status = "Requested"
                     /\ users[e].blood_group \notin CompatibleDonors(req.blood_group))
                    => DonateError(e, request_id) = "IncompatibleBloodGroup"
          /\ \A k \in 1..Len(requests_list) :
                requests_list[k].status \in {"Accepted", "Confirmed"} =>
                    /\ requests_list[k].donor_email \in Donors
                    /\ users[requests_list[k].donor_email].blood_group
                          \in CompatibleDonors(requests_list[k].blood_group))
    /\ [][\A e \in Donors, request_id \in RequestIds, method \in Methods :
              (/\ donate_blood(e, request_id, method)
               /\ \E req \in Found(request_id) :
                     users[e].blood_group \notin CompatibleDonors(req.blood_group))
              => requests_list' = requests_list]_vars

\* C3's case: a request accepted by a donor of another, compatible group,
\* while a donor of an incompatible group faces a request still Requested.
C3_Witness ==
    /\ \E k \in 1..Len(requests_list) :
          /\ requests_list[k].status = "Accepted"
          /\ users[requests_list[k].donor_email].blood_group # requests_list[k].blood_group
    /\ \E e \in Donors, k \in 1..Len(requests_list) :
          /\ requests_list[k].status = "Requested"
          /\ DonateError(e, requests_list[k].id) = "IncompatibleBloodGroup"

\* C4: once a request is accepted, every later accept on its id by any donor
\* (the same, another compatible one, an incompatible one) is refused with
\* InvalidState and changes neither the requests nor the donation logs.
C4_SecondAcceptInvalidState ==
    /\ [](\A e \in Donors, request_id \in RequestIds :
             \A req \in Found(request_id) :
                 req.status # "Requested" => DonateError(e, request_id) = "InvalidState")
    /\ [][\A e \in Donors, request_id \in RequestIds, method \in Methods :
              (/\ donate_blood(e, request_id, method)
               /\ \E req \in Found(request_id) : req.status # "Requested")
              => UNCHANGED <<requests_list, donation_history>>]_vars

\* C4's case: a request has been accepted, and both its donor and another
\* donor, of an incompatible group, are refused with InvalidState.
C4_Witness ==
    \E k \in 1..Len(requests_list), e \in Donors :
        /\ requests_list[k].status = "Accepted"
        /\ FindRequest(requests_list, requests_list[k].id) = k
        /\ e # requests_list[k].donor_email
        /\ users[e].blood_group \notin CompatibleDonors(requests_list[k].blood_group)
        /\ DonateError(e, requests_list[k].id) = "InvalidState"
        /\ DonateError(requests_list[k].donor_email, requests_list[k].id) = "InvalidState"

\* The answer C5 gives for a logged-in caller: request exists, caller is a
\* Donor, status is Requested, groups compatible, in this order.
C5_ClaimedAnswer(e, request_id) ==
    IF Found(request_id) = {} THEN "NotFound"
    ELSE IF users[e].role # "Donor" THEN "RoleMismatch"
    ELSE IF \E req \in Found(request_id) : req.status # "Requested" THEN "InvalidState"
    ELSE IF \E req \in Found(request_id) :
               users[e].blood_group \notin CompatibleDonors(req.blood_group)
    THEN "IncompatibleBloodGroup"
    ELSE "none"

\* C5 as stated: the refusal is that of the first check failing in the order
\* NotFound, RoleMismatch, InvalidState, IncompatibleBloodGroup.
C5_AsClaimed ==
    \A e \in DOMAIN users, request_id \in RequestIds :
        DonateError(e, request_id) = C5_ClaimedAnswer(e, request_id)

\* The answer with the role check first.
C5_AmendedAnswer(e, request_id) ==
    IF users[e].role # "Donor" THEN "RoleMismatch"
    ELSE IF Found(request_id) = {} THEN "NotFound"
    ELSE IF \E req \in Found(request_id) : req.status # "Requested" THEN "InvalidState"
    ELSE IF \E req \in Found(request_id) :
               users[e].blood_group \notin CompatibleDonors(req.blood_group)
    THEN "IncompatibleBloodGroup"
    ELSE "none"

\* C5 amended: for a logged-in caller the refusal is that of the first check
\* failing in the order RoleMismatch, NotFound, InvalidState,
\* IncompatibleBloodGroup.
C5_RoleCheckedFirst ==
    \A e \in DOMAIN users, request_id \in RequestIds :
        DonateError(e, request_id) = C5_AmendedAnswer(e, request_id)

\* C5's case: a caller who is no Donor names an id that no request has, while
\* other requests exist.
C5_Witness ==
    /\ requests_list # <<>>
    /\ \E e \in DOMAIN users \ Donors, request_id \in RequestIds :
          /\ Found(request_id) = {}
          /\ DonateError(e, request_id) = "RoleMismatch"

\* C6: a confirm goes through exactly when the request exists, the caller is
\* its requestor and its status is Accepted; otherwise the refusal is that of
\* the first check failing in the order NotFound, NotOwner, InvalidState.
\* Hence a request becomes Confirmed only from Accepted and only by a call of
\* its own requestor.
C6_ConfirmOnlyByOwnerAfterAccept ==
    /\ [](\A e \in DOMAIN users, request_id \in RequestIds :
             /\ ConfirmError(e, request_id) =
                   IF Found(request_id) = {} THEN "NotFound"
                   ELSE IF \E req \in Found(request_id) : req.requestor_email # e THEN "NotOwner"
                   ELSE IF \E req \in Found(request_id) : req.status # "Accepted" THEN "InvalidState"
                   ELSE "none"
             /\ ConfirmWrites(e, request_id, "POST") <=>
                   \E req \in Found(request_id) :
                       req.requestor_email = e /\ req.status = "Accepted")
    /\ [][\A k \in 1..Len(requests_list) :
              (requests_list[k].status # "Confirmed" /\ requests_list'[k].status = "Confirmed")
              => /\ requests_list[k].status = "Accepted"
                 /\ confirm_request(requests_list[k].requestor_email, requests_list[k].id, "POST")
                 /\ \A session \in Sessions, request_id \in RequestIds, method \in Methods :
                       confirm_request(session, request_id, method)
                       => session = requests_list[k].requestor_email]_vars

\* C6's case: a request has been confirmed while a user who is not its owner
\* is registered, and on a request still Requested the owner is refused with
\* InvalidState and another user with NotOwner.
C6_Witness ==
    /\ \E k \in 1..Len(requests_list) :
          /\ requests_list[k].status = "Confirmed"
          /\ \E e \in Donors : e # requests_list[k].requestor_email
    /\ \E k \in 1..Len(requests_list), e \in DOMAIN users :
          /\ requests_list[k].status = "Requested"
          /\ ConfirmError(requests_list[k].requestor_email, requests_list[k].id) = "InvalidState"
          /\ ConfirmError(e, requests_list[k].id) = "NotOwner"

\* Whether register() refuses this form.
RegisterRefuses(f) ==
    RegisterError(f.user_type, f.method, strip(f.name), lower(strip(f.email)),
                  f.password, upper(strip(f.blood_group))) # "none"

\* Whether create_request() refuses this form of this caller.
CreateRefuses(session, f) ==
    CreateError(session, f.method, upper(strip(f.blood_group)), f.units) # "none"

\* C7: a call of register, create_request, donate_blood or confirm_request
\* that is refused leaves users, every request and every donation log as they
\* were.
C7_RefusedCallChangesNothing ==
    [][ /\ \A f \in RegisterForms :
              (/\ register(f.user_type, f.method, f.name, f.email, f.password, f.blood_group)
               /\ RegisterRefuses(f))
              => UNCHANGED <<users, requests_list, donation_history>>
        /\ \A session \in Sessions, f \in RequestForms :
              (/\ create_request(session, f.method, f.blood_group, f.units, f.uuid)
               /\ CreateRefuses(session, f))
              => UNCHANGED <<users, requests_list, donation_history>>
        /\ \A session \in Sessions, request_id \in RequestIds, method \in Methods :
              (/\ donate_blood(session, request_id, method)
               /\ DonateError(session, request_id) # "none")
              => UNCHANGED <<users, requests_list, donation_history>>
        /\ \A session \in Sessions, request_id \in RequestIds, method \in Methods :
              (/\ confirm_request(session, request_id, method)
               /\ ConfirmError(session, request_id) # "none")
              => UNCHANGED <<users, requests_list, donation_history>>
      ]_vars

\* C7's case: users, requests and a donation log exist, and each of the four
\* operations has a call that is refused here: a registration with a taken
\* e-mail, a request form with a bad group, an accept by an incompatible
\* donor, a confirm by someone who is not the owner.
C7_Witness ==
    /\ donation_history # <<>>
    /\ \E f \in RegisterForms :
          RegisterError(f.user_type, f.method, strip(f.name), lower(strip(f.email)),
                        f.password, upper(strip(f.blood_group))) = "DuplicateEmailError"
    /\ \E session \in Sessions, f \in RequestForms :
          CreateError(session, f.method, upper(strip(f.blood_group)), f.units) = "ValidationError"
    /\ \E session \in Sessions, request_id \in RequestIds :
          DonateError(session, request_id) = "IncompatibleBloodGroup"
    /\ \E session \in Sessions, request_id \in RequestIds :
          ConfirmError(session, request_id) = "NotOwner"

\* C8: served one call at a time, the logs hold exactly one DonationRecord for
\* each request that is Accepted or Confirmed and none for a request still
\* Requested; the record is in the log of the request's donor and carries the
\* request's id, blood group and requestor.
C8_OneRecordPerAcceptedRequest ==
    \A k \in 1..Len(requests_list) :
        LET req == requests_list[k]
        IN  IF req.status = "Requested"
            THEN RecordsOf(req.id) = {}
            ELSE /\ Cardinality(RecordsOf(req.id)) = 1
                 /\ \A p \in RecordsOf(req.id) :
                       /\ p[1] = req.donor_email
                       /\ donation_history[p[1]][p[2]].blood_group = req.blood_group
                       /\ donation_history[p[1]][p[2]].requestor_email = req.requestor_email

\* C9: the requests of requests_list have pairwise distinct ids.
C9_RequestIdsDistinct ==
    \A j, k \in 1..Len(requests_list) :
        j # k => requests_list[j].id # requests_list[k].id

\* C10: create_request appends exactly one request when the call is a POST of
\* a Requestor whose blood group, trimmed and in upper case, is one of the 8
\* groups and whose units are a positive integer, and appends nothing
\* otherwise; the new request is Requested, has no donor and has the caller as
\* requestor. Hence every stored request has a valid group, units above zero
\* and a registered Requestor as requestor.
C10_CreateAppendsOneValidRequest ==
    /\ [](\A k \in 1..Len(requests_list) :
             /\ requests_list[k].blood_group \in ValidGroups
             /\ requests_list[k].units > 0
             /\ requests_list[k].requestor_email \in DOMAIN users \ Donors)
    /\ [][\A session \in Sessions, f \in RequestForms :
              create_request(session, f.method, f.blood_group, f.units, f.uuid) =>
                  IF /\ f.method = "POST"
                     /\ session \in DOMAIN users \ Donors
                     /\ upper(strip(f.blood_group)) \in ValidGroups
                     /\ int(f.units).ok
                     /\ int(f.units).value > 0
                  THEN /\ Len(requests_list') = Len(requests_list) + 1
                       /\ SubSeq(requests_list', 1, Len(requests_list)) = requests_list
                       /\ requests_list'[Len(requests_list')].status = "Requested"
                       /\ requests_list'[Len(requests_list')].donor_email = None
                       /\ requests_list'[Len(requests_list')].requestor_email = session
                       /\ requests_list'[Len(requests_list')].blood_group = upper(strip(f.blood_group))
                       /\ requests_list'[Len(requests_list')].units = int(f.units).value
                  ELSE requests_list' = requests_list]_vars

\* C10's case: a request stored from the form whose group and units are
\* typed with blanks around them (" A+ ", " +2").
C10_Witness ==
    \E k \in 1..Len(requests_list) :
        /\ requests_list[k].blood_group = A_pos
        /\ requests_list[k].units > 1
        /\ requests_list[k].status = "Requested"
        /\ requests_list[k].donor_email = None

\* C11: a request that is Requested is open to every compatible donor: in
\* every reachable state, an accept on the id of a Requested request by a
\* registered Donor whose group is among the compatible donors of the
\* requested group goes through.
C11_RequestedIsOpenToCompatibleDonors ==
    \A k \in 1..Len(requests_list), e \in Donors :
        (/\ requests_list[k].status = "Requested"
         /\ users[e].blood_group \in CompatibleDonors(requests_list[k].blood_group))
        => DonateAccepts(e, requests_list[k].id, "POST")

\* Whether the step changes the value that request k holds under one of its
\* keys, or drops the key.
FieldChanged(k) ==
    \E f \in DOMAIN requests_list[k] :
        \/ f \notin DOMAIN requests_list'[k]
        \/ requests_list'[k][f] # requests_list[k][f]

\* C12: no request leaves the list, and a step changes a field that a request
\* has only if it is an accept on the request's id that goes through or a
\* confirm by the request's owner that goes through; registrations, other
\* requests and the views change no field of any request.
C12_OnlyAcceptAndConfirmChangeARequest ==
    [][ /\ Len(requests_list') >= Len(requests_list)
        /\ \A k \in 1..Len(requests_list) :
              FieldChanged(k) =>
                  \/ \E e \in Donors :
                        /\ DonateAccepts(e, requests_list[k].id, "POST")
                        /\ donate_blood(e, requests_list[k].id, "POST")
                  \/ /\ ConfirmWrites(requests_list[k].requestor_email, requests_list[k].id, "POST")
                     /\ confirm_request(requests_list[k].requestor_email, requests_list[k].id, "POST")
      ]_vars

\* A registration form that passes every check on its own fields.
WellFormed(f) ==
    /\ f.method = "POST"
    /\ lower(f.user_type) \in {<<"d","o","n","o","r">>, <<"r","e","q","u","e","s","t","o","r">>}
    /\ strip(f.name) # <<>>
    /\ strip(f.email) # <<>>
    /\ f.password # <<>>
    /\ lower(f.user_type) = <<"d","o","n","o","r">> => upper(strip(f.blood_group)) \in ValidGroups

ActivePlaces == { k \in 1..Len(requests_list) : requests_list[k].status # "Accepted" }

\* The j-th smallest of the active places.
ActivePlace(j) ==
    CHOOSE k \in ActivePlaces : Cardinality({ i \in ActivePlaces : i <= k }) = j

\* C14: get_active_requests returns the Requested and the Confirmed requests,
\* each once and in the order of requests_list, and no Accepted request: a
\* request leaves the view with the step that accepts it and is back in it
\* with the step that confirms it.
C14_ActiveIsRequestedOrConfirmed ==
    /\ [](LET active == get_active_requests(requests_list)
          IN  /\ Len(active) = Cardinality(ActivePlaces)
              /\ \A j \in 1..Len(active) : active[j] = requests_list[ActivePlace(j)]
              /\ \A j \in 1..Len(active) : active[j].status \in {"Requested", "Confirmed"})
    /\ [][\A k \in 1..Len(requests_list) :
              /\ (requests_list[k].status = "Requested" /\ requests_list'[k].status = "Accepted")
                 => /\ InList(requests_list[k], get_active_requests(requests_list))
                    /\ ~InList(requests_list'[k], get_active_requests(requests_list'))
              /\ (requests_list[k].status = "Accepted" /\ requests_list'[k].status = "Confirmed")
                 => /\ ~InList(requests_list[k], get_active_requests(requests_list))
                    /\ InList(requests_list'[k], get_active_requests(requests_list'))]_vars

\* C14's case: an Accepted request stands in the list before a Confirmed one.
C14_Witness ==
    \E j, k \in 1..Len(requests_list) :
        /\ j < k
        /\ requests_list[j].status = "Accepted"
        /\ requests_list[k].status = "Confirmed"

\* The groups of a list, as a set.
GroupsOf(list) == { list[i] : i \in 1..Len(list) }

\* trim-and-uppercase, the canonical form of a group text.
Canonical(x) == upper(strip(x))

\* C15: the compatible donors of each of the 8 groups g include g itself and
\* O-; those of AB+ are all 8 groups; those of O- are O- alone. This holds of
\* the table and of what get_compatible_blood_groups returns for g.
C15_SelfAndUniversalDonor ==
    /\ \A g \in ValidGroups :
          /\ g \in DOMAIN BLOOD_COMPATIBILITY_RULES
          /\ {g, O_neg} \subseteq GroupsOf(BLOOD_COMPATIBILITY_RULES[g])
    /\ (/\ engine.op = "get_compatible_blood_groups"
        /\ engine.pc = "return"
        /\ Canonical(engine.requested_blood_group) \in ValidGroups)
       => /\ {Canonical(engine.requested_blood_group), O_neg} \subseteq GroupsOf(engine.returned)
          /\ Canonical(engine.requested_blood_group) = AB_pos
                => /\ GroupsOf(engine.returned) = ValidGroups
                   /\ Len(engine.returned) = 8
          /\ Canonical(engine.requested_blood_group) = O_neg => engine.returned = <<O_neg>>

\* C15's case: get_compatible_blood_groups has returned for AB+.
C15_Witness ==
    /\ engine.op = "get_compatible_blood_groups"
    /\ engine.pc = "return"
    /\ engine.requested_blood_group = AB_pos

\* The ABO antigens of a group, and its Rh sign.
Antigens(g) == { a \in {"A", "B"} : InList(a, g) }

RhSign(g) == g[Len(g)]

\* The standard transfusion rule: every ABO antigen of the donor is one of the
\* recipient, and the donor is Rh-negative or the recipient Rh-positive.
StandardRule(d, r) ==
    /\ Antigens(d) \subseteq Antigens(r)
    /\ RhSign(d) = "-" \/ RhSign(r) = "+"

\* C16: for all d and r among the 8 groups, d is a compatible donor of r
\* exactly when the standard transfusion rule allows d to give to r: so read
\* from what is_compatible(d, r) returns, from what
\* get_compatible_blood_groups(r) returns, and from the table.
C16_TableIsStandardRule ==
    /\ \A r \in ValidGroups :
          GroupsOf(BLOOD_COMPATIBILITY_RULES[r]) = { d \in ValidGroups : StandardRule(d, r) }
    /\ (/\ engine.op = "is_compatible"
        /\ engine.pc = "return"
        /\ engine.donor_blood_group \in ValidGroups
        /\ engine.requested_blood_group \in ValidGroups)
       => (engine.returned <=> StandardRule(engine.donor_blood_group, engine.requested_blood_group))
    /\ (/\ engine.op = "get_compatible_blood_groups"
        /\ engine.pc = "return"
        /\ engine.requested_blood_group \in ValidGroups)
       => GroupsOf(engine.returned) =
             { d \in ValidGroups : StandardRule(d, engine.requested_blood_group) }

\* C16's case: is_compatible has returned True for a donor group and a
\* requested group that differ in antigens and in Rh sign.
C16_Witness ==
    /\ engine.op = "is_compatible"
    /\ engine.pc = "return"
    /\ engine.donor_blood_group \in ValidGroups
    /\ engine.requested_blood_group \in ValidGroups
    /\ Antigens(engine.donor_blood_group) # Antigens(engine.requested_blood_group)
    /\ RhSign(engine.donor_blood_group) # RhSign(engine.requested_blood_group)
    /\ engine.returned

\* C17: get_compatible_blood_groups(x) returns the table entry of the
\* canonical form of x when that is one of the 8 groups and the empty list
\* for every other x (it never raises); is_compatible(d, r) returns True
\* exactly when the canonical form of d is among the compatible donors of r,
\* hence False for every r and for every d that is no group.
C17_CanonicalLookup ==
    /\ (engine.op = "get_compatible_blood_groups" /\ engine.pc # "call")
       => /\ engine.pc = "return"
          /\ engine.returned =
                IF Canonical(engine.requested_blood_group) \in ValidGroups
                THEN InitialRules[Canonical(engine.requested_blood_group)]
                ELSE <<>>
          /\ engine.requested_blood_group = <<" ","a","+"," ">>
                => engine.returned = <<A_pos, A_neg, O_pos, O_neg>>
    /\ (engine.op = "is_compatible" /\ engine.pc # "call")
       => /\ engine.pc = "return"
          /\ engine.returned <=>
                /\ Canonical(engine.requested_blood_group) \in ValidGroups
                /\ Canonical(engine.donor_blood_group)
                      \in CompatibleDonors(Canonical(engine.requested_blood_group))
          /\ Canonical(engine.requested_blood_group) \notin ValidGroups => ~engine.returned
          /\ Canonical(engine.donor_blood_group) \notin ValidGroups => ~engine.returned

\* C17's case: is_compatible has returned True for two groups that are both
\* typed in another than the canonical form.
C17_Witness ==
    /\ engine.op = "is_compatible"
    /\ engine.pc = "return"
    /\ Canonical(engine.donor_blood_group) # engine.donor_blood_group
    /\ Canonical(engine.requested_blood_group) # engine.requested_blood_group
    /\ engine.returned

\* The places of the candidates that filter_compatible_donors is to keep:
\* those whose canonical group is among the compatible donors of the
\* requested group.
KeptPlaces ==
    { i \in 1..Len(engine.available_donors) :
        /\ Canonical(engine.requested_blood_group) \in ValidGroups
        /\ Canonical(DonorBloodGroup(engine.available_donors[i]))
              \in CompatibleDonors(Canonical(engine.requested_blood_group)) }

\* The j-th smallest of the kept places.
KeptPlace(j) == CHOOSE i \in KeptPlaces : Cardinality({ h \in KeptPlaces : h <= i }) = j

DocstringCall ==
    /\ engine.op = "filter_compatible_donors"
    /\ engine.requested_blood_group = A_pos
    /\ engine.available_donors = <<donor1, donor2, donor3>>

C20_TableNeverChanges ==
    /\ [](/\ BLOOD_COMPATIBILITY_RULES = InitialRules
          /\ \A x \in GroupTexts :
                get_compatible_blood_groups(BLOOD_COMPATIBILITY_RULES, x)
                   = get_compatible_blood_groups(InitialRules, x)
          /\ \A k \in 1..Len(requests_list) :
                requests_list[k].compatibility_info
                   = BLOOD_COMPATIBILITY_RULES[requests_list[k].blood_group])
    /\ [][BLOOD_COMPATIBILITY_RULES' = BLOOD_COMPATIBILITY_RULES]_vars

\* C20's case: a request was created, a donor has opened the dashboard, which
\* wrote on the request, and the request has gone on to Confirmed.
C20_Witness ==
    \E k \in 1..Len(requests_list) :
        /\ "compatible_donors" \in DOMAIN requests_list[k]
        /\ requests_list[k].compatible_donors # <<>>
        /\ requests_list[k].status = "Confirmed"

\* The roles get_user_requests is asked with.
UserRoles == {"Requestor", "Donor", "Admin", "requestor", "donor"}

\* The j-th smallest of a set of places.
PlaceOf(places, j) == CHOOSE k \in places : Cardinality({ i \in places : i <= k }) = j

\* The places of the requests that requestsForUser is to return.
PlacesFor(e, role) ==
    { k \in 1..Len(requests_list) :
        \/ role = "Requestor" /\ requests_list[k].requestor_email = e
        \/ role = "Donor" /\ requests_list[k].donor_email = e }

\* C21: for a registered user, get_user_requests returns, in the order of
\* requests_list, the requests whose requestor is the user when asked with
\* role Requestor, those whose donor is the user when asked with role Donor,
\* and nothing when asked with another role. The requestor of a request is
\* the caller of the create_request that appended it and never changes; the
\* donor of a request becomes e in the accept of e that goes through on it,
\* and at no other step.
C21_RequestsForUser ==
    /\ [](\A e \in DOMAIN users, role \in UserRoles :
             LET mine == get_user_requests(requests_list, e, role)
             IN  /\ Len(mine) = Cardinality(PlacesFor(e, role))
                 /\ \A j \in 1..Len(mine) : mine[j] = requests_list[PlaceOf(PlacesFor(e, role), j)]
                 /\ role \notin {"Requestor", "Donor"} => mine = <<>>)
    /\ [][requests_list' # requests_list =>
            /\ \A k \in 1..Len(requests_list) :
                  /\ requests_list'[k].requestor_email = requests_list[k].requestor_email
                  /\ requests_list'[k].donor_email # requests_list[k].donor_email =>
                        /\ requests_list[k].donor_email = None
                        /\ \E e \in Donors :
                              /\ DonateAccepts(e, requests_list[k].id, "POST")
                              /\ donate_blood(e, requests_list[k].id, "POST")
                              /\ FindRequest(requests_list, requests_list[k].id) = k
                              /\ requests_list'[k].donor_email = e
            /\ \A e \in Donors, request_id \in RequestIds :
                  (/\ DonateAccepts(e, request_id, "POST")
                   /\ donate_blood(e, request_id, "POST"))
                  => requests_list'[FindRequest(requests_list, request_id)].donor_email = e
            /\ Len(requests_list') > Len(requests_list) =>
                  \A session \in Sessions, f \in RequestForms :
                      create_request(session, f.method, f.blood_group, f.units, f.uuid)
                      => requests_list'[Len(requests_list')].requestor_email = session
         ]_vars

\* C21's case: a requestor has two requests and a donor has accepted one of
\* them.
C21_Witness ==
    \E e \in Donors, r \in DOMAIN users :
        /\ Len(get_user_requests(requests_list, r, "Requestor")) = 2
        /\ Len(get_user_requests(requests_list, e, "Donor")) = 1
        /\ get_user_requests(requests_list, e, "Donor")[1] = requests_list[2]

\* C22: the list stored under compatibility_info when a request is created is
\* what get_compatible_blood_groups returns for the request's group at that
\* step, and no later step (accept, confirm, dashboard, another view or
\* creation, a registration) changes it.
C22_SnapshotKept ==
    [][ /\ \A k \in 1..Len(requests_list) :
              /\ k <= Len(requests_list')
              /\ requests_list'[k].compatibility_info = requests_list[k].compatibility_info
        /\ \A k \in (Len(requests_list) + 1)..Len(requests_list') :
              /\ requests_list'[k].compatibility_info # <<>>
              /\ requests_list'[k].compatibility_info =
                    get_compatible_blood_groups(BLOOD_COMPATIBILITY_RULES,
                                                requests_list'[k].blood_group)
              /\ GroupsOf(requests_list'[k].compatibility_info) =
                    CompatibleDonors(requests_list'[k].blood_group)
      ]_vars

\* C22's case: a request for A+ has been accepted and confirmed, a donor has
\* opened the dashboard since, and the request still holds the four groups
\* stored when it was created.
C22_Witness ==
    \E k \in 1..Len(requests_list) :
        /\ requests_list[k].status = "Confirmed"
        /\ "compatible_donors" \in DOMAIN requests_list[k]
        /\ Len(requests_list[k].compatible_donors) = 2
        /\ requests_list[k].compatibility_info = <<A_pos, A_neg, O_pos, O_neg>>

\* C23: with the calls served one at a time, a request is Requested exactly
\* when it has no donor; an Accepted or Confirmed request has a registered
\* donor and the time of its acceptance, a Confirmed one the time of its
\* confirmation too; the requestor of a request never changes, and its donor
\* never changes once it has one.
C23_DonorAndTimestampsFollowStatus ==
    /\ [](\A k \in 1..Len(requests_list) :
             LET req == requests_list[k]
             IN  /\ req.status = "Requested" <=> req.donor_email = None
                 /\ req.status \in {"Accepted", "Confirmed"} =>
                       /\ req.donor_email \in Donors
                       /\ req.donor_name = users[req.donor_email].name
                       /\ req.accepted_at = Timestamp
                 /\ req.status = "Confirmed" => req.confirmed_at = Timestamp
                 /\ req.requestor_email \in DOMAIN users)
    /\ [][\A k \in 1..Len(requests_list) :
              /\ requests_list'[k].requestor_email = requests_list[k].requestor_email
              /\ requests_list[k].donor_email # None =>
                    requests_list'[k].donor_email = requests_list[k].donor_email]_vars

\* C23's case: one request has gone to Confirmed, with donor and both times,
\* while another is still Requested, without donor.
C23_Witness ==
    \E j, k \in 1..Len(requests_list) :
        /\ requests_list[j].status = "Confirmed"
        /\ requests_list[j].donor_email \in Donors
        /\ requests_list[j].confirmed_at # None
        /\ requests_list[k].status = "Requested"
        /\ requests_list[k].donor_email = None

\* ------------------------------------------------------------------ the calls that are not withheld
\* A registered Donor whose blood group is compatible with the k-th request
\* POSTs /donate-blood/<id of that request>, and the call changes the state.
AcceptRequest(k) ==
    /\ k <= Len(requests_list)
    /\ \E session \in Donors :
          /\ users[session].blood_group \in CompatibleDonors(requests_list[k].blood_group)
          /\ donate_blood(session, requests_list[k].id, "POST")

\* The requestor of the k-th request POSTs /confirm/<id of that request>.
ConfirmOwnRequest(k) ==
    /\ k <= Len(requests_list)
    /\ confirm_request(requests_list[k].requestor_email, requests_list[k].id, "POST")

\* The calls served one at a time, where a call of a compatible donor for a
\* request, or of the requestor for their own request, that would change the
\* state is not withheld for ever.
FairSpec ==
    /\ Init
    /\ [][Next]_vars
    /\ \A k \in 1..MaxRequests :
          WF_vars(AcceptRequest(k)) /\ WF_vars(ConfirmOwnRequest(k))

\* The k-th request exists and some registered Donor has a compatible group.
Servable(k) ==
    /\ k <= Len(requests_list)
    /\ \E e \in Donors :
          users[e].blood_group \in CompatibleDonors(requests_list[k].blood_group)

Confirmed(k) == k <= Len(requests_list) /\ requests_list[k].status = "Confirmed"

\* C24: when the calls of compatible donors and of the owning requestor are
\* not withheld for ever, every request for which some registered Donor has a
\* compatible blood group is Confirmed in the end.
C24_ServableRequestIsConfirmedInTheEnd ==
    \A k \in 1..MaxRequests : Servable(k) ~> Confirmed(k)

\* The same, for the runs in which the id generator never repeats an id.
C24_ConfirmedInTheEndWhenIdsDistinct ==
    []C9_RequestIdsDistinct => C24_ServableRequestIsConfirmedInTheEnd

====
